---- MODULE Spec2Model ----
(***************************************************************************)
(* Model of scrape.py: the asyncio scraper of ICML / NeurIPS / ICLR paper  *)
(* pages.  One state machine: the event loop runs one coroutine step at a  *)
(* time; a step is the code between two suspension points (the semaphore   *)
(* acquisition and the network call).                                      *)
(***************************************************************************)
EXTENDS Integers, Sequences, FiniteSets, TLC

\* ---------------------------------------------------------------- bounds
MaxParallel == 2        \* --parallel is drawn from 1..MaxParallel
MaxFaults == 3          \* failing network calls injected in one run (Spec)
MaxPages == 3           \* pages (listing, paper, author) one run discovers (Spec)
MaxSiteFaults == 1      \* the same two bounds for SpecSite: a larger site,
MaxSitePages == 4       \*   fewer failures
MaxRunPages == 8        \* pages of one run of SpecRun (no failing call), and of one
MaxUnitPages == 4       \*   of its units: a unit of two rows beside a unit with rows
MaxFairFaults == 1      \* and for FairSpec
MaxFairPages == 3
MaxArgPages == 3        \* and for SpecArgs: units of at most MaxArgUnitPages
MaxArgUnitPages == 2    \*   pages each, no failing call

\* ------------------------------------------------------ program constants
N_TRIES == 3            \* @retry_on_server_disconnect(3)

CONFERENCES ==
    << [name |-> "ICML",    first_year |-> 2017],
       [name |-> "NeurIPS", first_year |-> 2006],
       [name |-> "ICLR",    first_year |-> 2018] >>

\* String order of the conference names, as pandas compares them.
NameRank(name) ==
    CASE name = "ICLR" -> 1
      [] name = "ICML" -> 2
      [] name = "NeurIPS" -> 3

\* ------------------------------------------------------------ input sets
Years == {2016, 2017}                 \* the years a run may be asked for

\* A string is the sequence of the code points of its characters.
Dash == 45              \* "-"
Plus == 43              \* "+"
Underscore == 95        \* "_"
Space == 32             \* " "
Newline == 10           \* "\n"

\* The "years" argument (120 is "x").
Y16 == <<50, 48, 49, 54>>                 \* "2016"
Y17 == <<50, 48, 49, 55>>                 \* "2017"
YearArgs ==
    { Y16, Y17, Y16 \o <<Dash>> \o Y17, Y17 \o <<Dash>> \o Y16,
      <<>>, <<120>>, <<50, 48, 120, 54>>, <<Dash>>, Y16 \o <<Dash>>,
      <<Dash>> \o Y17, Y16 \o <<Dash, 120>>, Y16 \o <<Dash>> \o Y17 \o <<Dash>> \o Y17 }

\* 2016 and 2017 in Arabic-Indic, Devanagari and fullwidth digits.
A16 == <<1634, 1632, 1633, 1638>>
A17 == <<1634, 1632, 1633, 1639>>
N16 == <<2408, 2406, 2407, 2412>>
F16 == <<65298, 65296, 65297, 65302>>

\* More values of the argument: padded (9 is a tab, 13 a carriage return,
\* 160 and 8195 spaces outside ASCII, 28 a separator that \s takes and int()
\* does not), signed, with underscores, with a newline at the end, in digits
\* other than 0-9 (178 is a superscript two, no decimal digit).
OddYearArgs ==
    { <<Space>> \o Y16, Y16 \o <<Space>>, <<9>> \o Y17 \o <<Newline>>, Y16 \o <<Newline>>,
      Y16 \o <<13>>, <<160>> \o Y16, Y16 \o <<8195>>, Y16 \o <<28>>,
      <<Plus>> \o Y16, <<Plus, Space>> \o Y16, <<Plus, Plus>> \o Y16, <<Space, Plus>> \o Y17,
      <<50, Underscore, 48, 49, 54>>, <<50, Underscore, 48, Underscore, 49, 55>>,
      <<50, Underscore, Underscore, 48, 49, 54>>, <<Underscore>> \o Y16, Y16 \o <<Underscore>>,
      <<50, Space, 48, 49, 54>>, <<Space>>, <<Plus>>, <<Underscore>>,
      A16, A17, N16, F16, <<50, 48, 1633, 54>>, <<178, 48, 49, 54>>,
      A16 \o <<Dash>> \o A17, N16 \o <<Dash>> \o Y17,
      Y16 \o <<Dash>> \o Y17 \o <<Newline>>, Y16 \o <<Dash>> \o Y17 \o <<Newline, Newline>>,
      Y16 \o <<Dash>> \o Y17 \o <<13>>,
      Y16 \o <<Dash>> \o Y17 \o <<Space>>, <<Space>> \o Y16 \o <<Dash>> \o Y17,
      Y16 \o <<Newline, Dash>> \o Y17, Y16 \o <<Dash, Newline>>,
      <<Plus>> \o Y16 \o <<Dash>> \o Y17, Y16 \o <<Dash, Plus>> \o Y17,
      <<50, Underscore, 48, 49, 54, Dash>> \o Y17,
      Y16 \o <<Dash, 50, Underscore, 48, 49, 55>> }

AuthorIds == {"a1", "a2"}

\* Names as they stand on the pages: "Ann", and "Bo Li" written with a space
\* and a tab (9) between its two parts.
Ann == <<65, 110, 110>>
BoLi == <<66, 111, Space, 9, 76, 105>>
Names == {Ann, BoLi}
Affils == {"X", "Y"}

\* The author buttons a paper page may carry, and the affiliation a page shows.
Refs == {<<Ann, "a1">>, <<BoLi, "a2">>, <<Ann, "a2">>}
AffilOf(id) == IF id = "a1" THEN "X" ELSE "Y"

AllUnits == {u \in (1..Len(CONFERENCES)) \X Years :
                u[2] >= CONFERENCES[u[1]].first_year}

Kinds == {"listing", "paper", "author"}

MaxAuthorTasks == Cardinality(AuthorIds)

\* The most papers a listing can show: every specification keeps a unit
\* within some number of pages, one of them the listing.
UnitPageBounds == {MaxPages, MaxSitePages, MaxUnitPages, MaxFairPages, MaxArgUnitPages}
MaxPapers == (CHOOSE m \in UnitPageBounds : \A x \in UnitPageBounds : x <= m) - 1

TaskIds ==
    {<<u, "listing", 1>> : u \in AllUnits}
    \cup {<<u, "paper", i>> : u \in AllUnits, i \in 1..MaxPapers}
    \cup {<<u, "author", i>> : u \in AllUnits, i \in 1..MaxAuthorTasks}

\* A parsed page.  cards: ids of the .maincard.Poster cards; title: text of
\* .maincardBody (the title of paper k is k); buttons: (display name, author id) of the author buttons;
\* h3 / h4: name and affiliation headings of an author page; maincard: the page
\* has a .maincard element (load_paper and load_author index it with [0]).
NoDoc == [maincard |-> TRUE, cards |-> <<>>, title |-> 0, buttons |-> <<>>,
          h3 |-> <<>>, h4 |-> ""]

SeqsUpTo(S, n) == UNION {[1..k -> S] : k \in 0..n}

RECURSIVE SeqToSet(_)
SeqToSet(s) == IF s = <<>> THEN {} ELSE {Head(s)} \cup SeqToSet(Tail(s))

RECURSIVE Concat(_)
Concat(ss) == IF ss = <<>> THEN <<>> ELSE Head(ss) \o Concat(Tail(ss))

Perms(S) == {p \in [1..Cardinality(S) -> S] : \A x \in S : \E i \in DOMAIN p : p[i] = x}

VARIABLES
    years,         \* args.years
    parallel,      \* args.parallel
    year_range,    \* <<start, end>> (start > end before the argument is parsed)
    sem,           \* OPEN_REQUESTS: [value, waiters (FIFO of [task, fut])]
    total,         \* REQUESTS_PBAR.total
    n,             \* REQUESTS_PBAR.n
    pc,            \* position of every fetch task
    tries,         \* attempts started by the task's retry wrapper
    log,           \* outcome of every finished attempt of the task, in order
    served,        \* page the server delivered on the task's successful attempt
    doc,           \* what load_doc_from_url returned to the loader
    upc,           \* position of every scrape() coroutine
    author_ids,    \* scrape(): author_ids
    rows,          \* scrape(): the returned frame, as a sequence of rows
    arrived,       \* per unit, its paper and author tasks in the order they returned
    mpc,           \* position of main() and of asyncio.run
    must_cancel,   \* the scrape() tasks whose Task._must_cancel is set
    output,        \* rows written by to_csv
    faults         \* failing network calls injected so far

vars == <<years, parallel, year_range, sem, total, n, pc, tries, log, served, doc,
          upc, author_ids, rows, arrived, mpc, must_cancel, output, faults>>

\* ------------------------------------------------- main: the years argument
\* The code points of the digits zero in Unicode 14 (the Unicode of Python
\* 3.11): every character of category Nd is one of the ten digits that start
\* at one of them.  \d of a str pattern and int() take them all.
DigitZeros ==
    { 48, 1632, 1776, 1984, 2406, 2534, 2662, 2790, 2918, 3046, 3174, 3302, 3430,
      3558, 3664, 3792, 3872, 4160, 4240, 6112, 6160, 6470, 6608, 6784, 6800, 6992,
      7088, 7232, 7248, 42528, 43216, 43264, 43472, 43504, 43600, 44016, 65296,
      66720, 68912, 69734, 69872, 69942, 70096, 70384, 70736, 70864, 71248, 71360,
      71472, 71904, 72016, 72784, 73040, 73120, 92768, 92864, 93008, 120782,
      120792, 120802, 120812, 120822, 123200, 123632, 125264, 130032 }

IsDigit(c) == \E z \in DigitZeros : z <= c /\ c <= z + 9

DigitValue(c) == c - (CHOOSE z \in DigitZeros : z <= c /\ c <= z + 9)

\* Whitespace as int() sees it.
IntSpaces ==
    { 9, 10, 11, 12, 13, 32, 133, 160, 5760, 8232, 8233, 8239, 8287, 12288 }
    \cup 8192..8202

IsSpace(c) == c \in IntSpaces

\* Whitespace as \s of a str pattern sees it.
IsReSpace(c) == c \in IntSpaces \cup 28..31

\* \d+
Digits(s) == s # <<>> /\ \A i \in DOMAIN s : IsDigit(s[i])

\* The text without the whitespace in front of it and after it.
Strip(s) ==
    LET inked == {i \in DOMAIN s : ~IsSpace(s[i])} IN
    IF inked = {} THEN <<>>
    ELSE SubSeq(s, CHOOSE i \in inked : \A j \in inked : i <= j,
                   CHOOSE i \in inked : \A j \in inked : j <= i)

\* What int() reads after it has dropped the whitespace around the text and
\* one sign in front of it.
Signed(s) == Strip(s) # <<>> /\ Head(Strip(s)) \in {Plus, Dash}
Unsigned(s) == IF Signed(s) THEN Tail(Strip(s)) ELSE Strip(s)

\* sys.get_int_max_str_digits(): the most digits int() converts.
IntMaxStrDigits == 4300

\* int(s) raises ValueError: the text is not a run of digits, with single
\* underscores allowed between two digits, or it has too many digits.
IntRaises(s) ==
    LET u == Unsigned(s) IN
    \/ u = <<>>
    \/ Len(SelectSeq(u, IsDigit)) > IntMaxStrDigits
    \/ \E i \in DOMAIN u :
          /\ ~IsDigit(u[i])
          /\ ~(/\ u[i] = Underscore
               /\ 1 < i /\ i < Len(u)
               /\ IsDigit(u[i - 1]) /\ IsDigit(u[i + 1]))

\* The value of a run of digits (int() has no largest value; the integers
\* here end at 2^31 - 1, so the arguments are kept to a few digits).
RECURSIVE DecimalValue(_)
DecimalValue(s) ==
    IF s = <<>> THEN 0
    ELSE 10 * DecimalValue(SubSeq(s, 1, Len(s) - 1)) + DigitValue(s[Len(s)])

\* int(s), when it does not raise.
IntOf(s) ==
    LET v == DecimalValue(SelectSeq(Unsigned(s), IsDigit))
    IN IF Signed(s) /\ Head(Strip(s)) = Dash THEN 0 - v ELSE v

\* "-" in years
HasDash(s) == \E i \in DOMAIN s : s[i] = Dash

\* "$" of a pattern without re.MULTILINE: the end of the string, or the place
\* before a newline that ends the string.
AtEnd(s, i) == i = Len(s) + 1 \/ (i = Len(s) /\ s[i] = Newline)

\* The longest run of digits of s from position k on: match[2] of the match.
DigitRun(s, k) ==
    LET stops == {j \in k..Len(s) : ~IsDigit(s[j])} IN
    IF stops = {} THEN SubSeq(s, k, Len(s))
    ELSE SubSeq(s, k, (CHOOSE j \in stops : \A x \in stops : j <= x) - 1)

\* re.match(r"^(\d+)-(\d+)$", years): the position of the dash when the
\* string matches (at most one), no position when it does not.
DashAt(s) ==
    {k \in DOMAIN s : /\ s[k] = Dash
                      /\ Digits(SubSeq(s, 1, k - 1))
                      /\ DigitRun(s, k + 1) # <<>>
                      /\ AtEnd(s, k + 1 + Len(DigitRun(s, k + 1)))}

\* The argument is refused: the assert on the match fails, or int() raises.
ParseFails(s) ==
    IF HasDash(s)
    THEN \/ DashAt(s) = {}
         \/ \E k \in DashAt(s) : \/ IntRaises(SubSeq(s, 1, k - 1))
                                  \/ IntRaises(DigitRun(s, k + 1))
    ELSE IntRaises(s)

\* start, end
ParseYears(s) ==
    IF HasDash(s)
    THEN LET k == CHOOSE d \in DashAt(s) : TRUE
         IN <<IntOf(SubSeq(s, 1, k - 1)), IntOf(DigitRun(s, k + 1))>>
    ELSE <<IntOf(s), IntOf(s)>>

\* ------------------------------------------------------------ main: units
\* paper_tasks of main(): conf-major, year-minor, year >= conf.first_year.
RECURSIVE RangeSeq(_, _)
RangeSeq(a, b) == IF a > b THEN <<>> ELSE <<a>> \o RangeSeq(a + 1, b)

UnitsOfConf(c, yr) ==
    LET ys == RangeSeq(yr[1], yr[2])
        ok(y) == y >= CONFERENCES[c].first_year
        sel == SelectSeq(ys, ok)
    IN [i \in 1..Len(sel) |-> <<c, sel[i]>>]

UnitSeq(yr) == Concat([c \in 1..Len(CONFERENCES) |-> UnitsOfConf(c, yr)])

\* The units of the run (paper_tasks is built once).
Units == UNION {SeqToSet(us) : us \in {UnitSeq(year_range)}}

\* ------------------------------------------------------------- semaphore
\* OPEN_REQUESTS is [value, waiters]; a waiter is [task, fut], the future of
\* the task's acquire(): "pending", "done" (set_result was called, the task
\* has not run yet) or "cancelled".  A future stays in the queue until its
\* own task runs again and removes it.

\* Semaphore.locked()
Locked(s) ==
    s.value = 0 \/ \E i \in DOMAIN s.waiters : s.waiters[i].fut # "cancelled"

\* Mutant of Acquire: the permit is handed out without looking at the counter.
AcquireUnchecked(s, t) == [sem |-> [s EXCEPT !.value = @ - 1], got |-> TRUE]

\* Semaphore.acquire up to "await fut": the fast path takes a permit,
\* otherwise a future is queued.  Result: the semaphore and whether t now
\* holds a permit.
Acquire(s, t) ==
    IF ~Locked(s)
    THEN [sem |-> [s EXCEPT !.value = @ - 1], got |-> TRUE]
    ELSE [sem |-> [s EXCEPT !.waiters = Append(@, [task |-> t, fut |-> "pending"])],
          got |-> FALSE]

\* Semaphore._wake_up_next: the first future that is not done takes a permit
\* and is set; it stays in the queue.  Result: the semaphore and the tasks
\* woken (one or none).
WakeUpNext(s) ==
    LET pending == {i \in DOMAIN s.waiters : s.waiters[i].fut = "pending"} IN
    IF pending = {}
    THEN [sem |-> s, woken |-> {}]
    ELSE LET i == CHOOSE k \in pending : \A j \in pending : k <= j
         IN [sem |-> [s EXCEPT !.value = @ - 1, !.waiters[i].fut = "done"],
             woken |-> {s.waiters[i].task}]

\* self._waiters.remove(fut), in the task that owns the future.
Unqueue(s, t) == [s EXCEPT !.waiters = SelectSeq(@, LAMBDA w : w.task # t)]

\* Semaphore.acquire after "await fut" returned: the future leaves the queue,
\* and with permits left the next waiter is woken.
AcquireResumed(s, t) ==
    LET s1 == Unqueue(s, t) IN
    IF s1.value > 0 THEN WakeUpNext(s1) ELSE [sem |-> s1, woken |-> {}]

\* Semaphore.acquire when "await fut" raised CancelledError: the future leaves
\* the queue; a future that had been set gives its permit back.
AcquireCancelled(s, t) ==
    LET s1 == Unqueue(s, t)
        set == \E i \in DOMAIN s.waiters :
                  s.waiters[i].task = t /\ s.waiters[i].fut = "done"
    IN IF set THEN WakeUpNext([s1 EXCEPT !.value = @ + 1])
       ELSE [sem |-> s1, woken |-> {}]

\* Mutant of Release: value += 1 without waking anybody.
ReleaseNoWake(s) == [sem |-> [s EXCEPT !.value = @ + 1], woken |-> {}]

\* Semaphore.release: value += 1, then _wake_up_next.
Release(s) == WakeUpNext([s EXCEPT !.value = @ + 1])

\* Mutant of ReleaseOnError: acquire() and release() without a scoped block,
\* so an exception skips the release.
NoReleaseOnError(s) == [sem |-> s, woken |-> {}]

\* Leaving "async with OPEN_REQUESTS" by an exception releases as well.
ReleaseOnError(s) == Release(s)

\* Task.cancel() on every task: the futures still pending are cancelled.
CancelWaiters(s) ==
    [s EXCEPT !.waiters =
        [i \in DOMAIN @ |-> IF @[i].fut = "pending"
                            THEN [@[i] EXCEPT !.fut = "cancelled"] ELSE @[i]]]

\* --------------------------------------------------------- progress bar
\* Mutant of RecordScheduled: the total is never raised.
RecordNothing(tot) == tot

\* REQUESTS_PBAR.total += 1, first statement of every call of the body.
RecordScheduled(tot) == tot + 1

\* main() has left "with tqdm(total=0) as pbar": the bar is closed, and a
\* closed bar is disabled.  Tasks run on a closed bar from the exception of
\* main() until asyncio.run has cancelled them.
BarClosed == mpc \in {"raised", "failed", "written"}

\* REQUESTS_PBAR.update(): n += 1, unless the bar is disabled.
PbarUpdate(k) == IF BarClosed THEN k ELSE k + 1

\* An attempt that raises never reaches update().
PbarOnError(k) == k

\* ------------------------------------------------------------ retry loop
\* Mutant of Retryable: "except Exception".
RetryAnything(e) == TRUE

\* except aiohttp.client_exceptions.ClientConnectionError
Retryable(e) == e = "conn"

\* Mutants of LastTry: the comparison off by one, either way.
LastTryEarly(tr) == tr - 1 = N_TRIES - 2
LastTryLate(tr) == tr - 1 = N_TRIES

\* if i == n_tries - 1: raise      (i counts from 0; tr attempts were started)
LastTry(tr) == tr - 1 = N_TRIES - 1

\* return await f(*args, **kwargs)
WrapperReturn(d) == d

\* ---------------------------------------------------------------- loaders
load_paper_ids(d) == d.cards
load_paper(d) == <<d.title, d.buttons>>
load_author(d) == <<d.h3, d.h4>>

\* ----------------------------------------------------------------- gather
\* Mutant of GatherResults: the results in the order the tasks returned
\* (asyncio.as_completed), not in the order they were passed.
ResultsAsCompleted(ts, arr) ==
    LET mine == SelectSeq(arr, LAMBDA t : \E i \in DOMAIN ts : ts[i] = t)
    IN [i \in 1..Len(ts) |-> IF i <= Len(mine) THEN doc[mine[i]] ELSE NoDoc]

\* await asyncio.gather(*tasks): the results, in the order of the tasks.
GatherResults(ts, arr) == [i \in 1..Len(ts) |-> doc[ts[i]]]

\* Mutants of GatherReturned: return_exceptions=True, and returning as soon
\* as one task is done.
GatherWithExceptions(st) == st \subseteq {"done", "failed"}
GatherFirstCompleted(st) == "done" \in st

\* gather returns once every task has returned (st: where the tasks are).
GatherReturned(st) == st \subseteq {"done"}

\* gather raises as soon as one task has raised.
GatherRaised(st) == "failed" \in st

\* Mutant of MainGatherReturned: return_exceptions=True in main.
MainGatherWithExceptions(st) == st \subseteq {"done", "failed"}

\* The gather of main(), over the scrape() coroutines.
MainGatherReturned(st) == st \subseteq {"done"}

ListingTask(u) == <<u, "listing", 1>>
paper_ids(u) == load_paper_ids(doc[ListingTask(u)])
paper_tasks(u) == [i \in 1..Len(paper_ids(u)) |-> <<u, "paper", i>>]
author_tasks(u) == [i \in 1..Len(author_ids[u]) |-> <<u, "author", i>>]
paper_data(u) ==
    LET res == GatherResults(paper_tasks(u), arrived[u])
    IN [i \in 1..Len(res) |-> load_paper(res[i])]
author_data(u) ==
    LET res == GatherResults(author_tasks(u), arrived[u])
    IN [i \in 1..Len(res) |-> load_author(res[i])]

PaperTasks(u) == {<<u, "paper", i>> : i \in 1..Len(paper_ids(u))}
AuthorTasks(u) == {<<u, "author", i>> : i \in 1..Len(author_ids[u])}
TasksOf(u) == {t \in TaskIds : t[1] = u}

\* The tasks of the gather scrape() is waiting in, and the tasks of the unit
\* that have not ended.
Gathered(u) ==
    CASE upc[u] = "papers" -> PaperTasks(u)
      [] upc[u] = "authors" -> AuthorTasks(u)
      [] OTHER -> {}
Pending(u) == {t \in TasksOf(u) : pc[t] \in {"created", "waiting", "woken", "holding"}}

\* ----------------------------------------------------------------- scrape
\* [id for _, authors in paper_data for name, id in authors]
ReferencedIds(pd) ==
    Concat([i \in 1..Len(pd) |-> [j \in 1..Len(pd[i][2]) |-> pd[i][2][j][2]]])

\* Mutant of AuthorIdLists: the list without set().
AuthorIdsWithRepeats(pd) == {ReferencedIds(pd)}

\* list(set(...)): every id once, in an order the set decides.
AuthorIdLists(pd) == Perms(SeqToSet(ReferencedIds(pd)))

\* dict(author_data): keyed by the name on the author page (the first
\* component of load_author's result); a later entry replaces an earlier one.
LastIndex(ad, key) ==
    CHOOSE i \in DOMAIN ad : ad[i][1] = key /\ \A j \in DOMAIN ad : ad[j][1] = key => j <= i

DictOf(ad) == [key \in {ad[i][1] : i \in DOMAIN ad} |-> ad[LastIndex(ad, key)][2]]

\* affiliations[name] for name, _ in authors: raises KeyError on a miss.
JoinFails(pd, aff) ==
    \E i \in DOMAIN pd : \E j \in DOMAIN pd[i][2] : pd[i][2][j][1] \notin DOMAIN aff

\* Mutant of Join: authors[0] instead of the loop over authors, one row a paper.
JoinFirstAuthor(u, pd, aff) ==
    Concat([i \in 1..Len(pd) |->
        [j \in 1..(IF pd[i][2] = <<>> THEN 0 ELSE 1) |->
            [Conference |-> CONFERENCES[u[1]].name, Year |-> u[2],
             Title |-> pd[i][1], Author |-> pd[i][2][j][1],
             Affiliation |-> aff[pd[i][2][j][1]]]]])

\* unnormalized, with the Conference and Year columns inserted.
Join(u, pd, aff) ==
    Concat([i \in 1..Len(pd) |->
        [j \in 1..Len(pd[i][2]) |->
            [Conference |-> CONFERENCES[u[1]].name, Year |-> u[2],
             Title |-> pd[i][1], Author |-> pd[i][2][j][1],
             Affiliation |-> aff[pd[i][2][j][1]]]]])

\* ------------------------------------------------------------------- main
\* The value sort_values compares for column "by".
KeyOf(r, by) == IF by = "Conference" THEN NameRank(r.Conference) ELSE r.Year

RECURSIVE InsertBy(_, _, _)
InsertBy(s, r, by) ==
    IF s = <<>> THEN <<r>>
    ELSE IF KeyOf(Head(s), by) <= KeyOf(r, by)
         THEN <<Head(s)>> \o InsertBy(Tail(s), r, by)
         ELSE <<r>> \o s

\* df.sort_values(by=by, kind="mergesort"): a stable sort.
RECURSIVE sort_values(_, _)
sort_values(df, by) ==
    IF df = <<>> THEN <<>>
    ELSE InsertBy(sort_values(SubSeq(df, 1, Len(df) - 1), by), df[Len(df)], by)

\* Mutant of SortRows: sorts that put rows of equal keys in the reverse of
\* the order they had.
SortRowsNotStable(df) ==
    sort_values(sort_values([i \in DOMAIN df |-> df[Len(df) + 1 - i]], "Conference"), "Year")

\* df.sort_values(by="Conference"), then df.sort_values(by="Year").
SortRows(df) == sort_values(sort_values(df, "Conference"), "Year")

\* re.sub(r"\s+", " ", name): every run of whitespace becomes one space.
RECURSIVE SquashSpaces(_)
SquashSpaces(name) ==
    IF name = <<>> THEN <<>>
    ELSE IF ~IsReSpace(Head(name)) THEN <<Head(name)>> \o SquashSpaces(Tail(name))
    ELSE IF Len(name) > 1 /\ IsReSpace(name[2]) THEN SquashSpaces(Tail(name))
    ELSE <<Space>> \o SquashSpaces(Tail(name))

\* df["Author"] = df["Author"].replace("\s+", " ", regex=True)
ReplaceAuthor(df) == [i \in DOMAIN df |-> [df[i] EXCEPT !.Author = SquashSpaces(@)]]


\* ------------------------------------------------------------------ pages
NoRepeat(b) == \A i, j \in DOMAIN b : b[i] = b[j] => i = j

\* A paper page names an author id once.
ButtonLists ==
    {b \in SeqsUpTo(Refs, Cardinality(AuthorIds)) : NoRepeat([i \in DOMAIN b |-> b[i][2]])}

ListingPages == {[NoDoc EXCEPT !.cards = [i \in 1..k |-> i]] : k \in 0..MaxPapers}
PaperPages(k) == {[NoDoc EXCEPT !.title = k, !.buttons = b] : b \in ButtonLists}
AuthorPages(id) == {[NoDoc EXCEPT !.h3 = nm, !.h4 = AffilOf(id)] : nm \in Names}
Malformed == [NoDoc EXCEPT !.maincard = FALSE]

ButtonIds(b) == {b[i][2] : i \in DOMAIN b}

\* Author ids on the paper pages unit u has loaded so far.
IdsSeen(u) == UNION {ButtonIds(doc[t].buttons) : t \in PaperTasks(u)}

\* Pages the run has discovered: the listings, the papers on the loaded
\* listings and the authors on the loaded papers.
PagesOf(u) == 1 + Len(paper_ids(u)) + Cardinality(IdsSeen(u))

RECURSIVE PagesIn(_)
PagesIn(us) == IF us = <<>> THEN 0 ELSE PagesOf(Head(us)) + PagesIn(Tail(us))

\* The pages of the units of the run, the sequence of units built once.
PagesKnown == CHOOSE k \in {PagesIn(us) : us \in {UnitSeq(year_range)}} : TRUE

\* What the server may answer to the request of task t when the run has
\* discovered known pages (a page that keeps the run within P pages and the
\* unit within U pages).
PagesFrom(t, P, U, known) ==
    CASE t[2] = "listing" ->
            {pg \in ListingPages : /\ known + Len(pg.cards) <= P
                                   /\ 1 + Len(pg.cards) <= U}
      [] t[2] = "paper" ->
            {pg \in PaperPages(paper_ids(t[1])[t[3]]) :
                LET new == Cardinality(ButtonIds(pg.buttons) \ IdsSeen(t[1]))
                IN known + new <= P /\ PagesOf(t[1]) + new <= U}
            \cup {Malformed}
      [] t[2] = "author" -> AuthorPages(author_ids[t[1]][t[3]]) \cup {Malformed}

\* The same, with the pages discovered so far counted once.
Pages(t, P, U) == UNION {PagesFrom(t, P, U, known) : known \in {PagesKnown}}

\* ------------------------------------------------------------------- Init
\* The state when main() is entered with one of the arguments args.
Start(args) ==
    /\ years \in args
    /\ parallel \in 1..MaxParallel
    /\ year_range = <<1, 0>>
    /\ sem = [value |-> parallel, waiters |-> <<>>]
    /\ total = 0
    /\ n = 0
    /\ pc = [t \in TaskIds |-> "none"]
    /\ tries = [t \in TaskIds |-> 0]
    /\ log = [t \in TaskIds |-> <<>>]
    /\ served = [t \in TaskIds |-> NoDoc]
    /\ doc = [t \in TaskIds |-> NoDoc]
    /\ upc = [u \in AllUnits |-> "none"]
    /\ author_ids = [u \in AllUnits |-> <<>>]
    /\ rows = [u \in AllUnits |-> <<>>]
    /\ arrived = [u \in AllUnits |-> <<>>]
    /\ mpc = "start"
    /\ must_cancel = {}
    /\ output = <<>>
    /\ faults = 0

Init == Start(YearArgs)

\* ------------------------------------------------------------ main starts
\* main() up to its gather: the argument is parsed and one scrape() is made
\* per conference and year.  Without any, gather returns at once and
\* pd.concat raises on the empty list.
MainStart ==
    /\ mpc = "start"
    /\ IF ParseFails(years)
       THEN /\ mpc' = "rejected"
            /\ UNCHANGED <<year_range, upc>>
       ELSE \E yr \in {ParseYears(years)} : \E us \in {SeqToSet(UnitSeq(yr))} :
               /\ year_range' = yr
               /\ upc' = [u \in AllUnits |-> IF u \in us THEN "created" ELSE "none"]
               /\ mpc' = IF us = {} THEN "failed" ELSE "gather"
    /\ UNCHANGED <<years, parallel, sem, total, n, pc, tries, log, served, doc,
                   author_ids, rows, arrived, must_cancel, output, faults>>

\* ---------------------------------------------------------- fetch attempts
\* The event loop runs the callbacks that are ready: until asyncio.run stops
\* it, also after main() has ended with an exception.
Running == mpc \in {"gather", "raised"}

\* main() has left "async with aiohttp.ClientSession()": session.get raises
\* RuntimeError("Session is closed") before any request is made.
SessionClosed == mpc = "raised"

\* The tasks whose future was set are ready to run.
Grant(p, woken) == [x \in TaskIds |-> IF x \in woken THEN "woken" ELSE p[x]]

\* What an attempt that has just ended with an exception does to its unit:
\* the listing is awaited by scrape() itself, which raises with it.
UnitOfListing(t, p) ==
    IF t[2] = "listing" /\ p[t] = "failed" THEN [upc EXCEPT ![t[1]] = "failed"] ELSE upc

\* One call of the body of load_doc_from_url up to its first suspension:
\* total += 1, then the semaphore is taken or the task queues.  On a closed
\* session the attempt that took the permit raises at once: the permit is
\* released and the wrapper re-raises the RuntimeError.  l is the log so far.
BeginAttempt(t, s, p, l) ==
    LET acq == Acquire(s, t)
        rel == ReleaseOnError(acq.sem)
    IN
    /\ total' = RecordScheduled(total)
    /\ tries' = [tries EXCEPT ![t] = @ + 1]
    /\ IF acq.got /\ SessionClosed
       THEN /\ sem' = rel.sem
            /\ pc' = Grant([p EXCEPT ![t] = "failed"], rel.woken)
            /\ log' = [l EXCEPT ![t] = Append(@, "other")]
       ELSE /\ sem' = acq.sem
            /\ pc' = [p EXCEPT ![t] = IF acq.got THEN "holding" ELSE "waiting"]
            /\ log' = l

\* scrape() starts: load_paper_ids awaits the listing fetch inline.
UnitStart(u) ==
    /\ Running
    /\ upc[u] = "created"
    /\ BeginAttempt(ListingTask(u), sem, pc, log)
    /\ upc' = [upc EXCEPT ![u] = IF pc'[ListingTask(u)] = "failed" THEN "failed"
                                 ELSE "listing"]
    /\ UNCHANGED <<years, parallel, year_range, n, served, doc, author_ids, rows,
                   arrived, mpc, must_cancel, output, faults>>

\* A task that gather() made of a load_paper / load_author coroutine starts.
StartTask(t) ==
    /\ Running
    /\ pc[t] = "created"
    /\ BeginAttempt(t, sem, pc, log)
    /\ UNCHANGED <<years, parallel, year_range, n, served, doc, upc, author_ids,
                   rows, arrived, mpc, must_cancel, output, faults>>

\* A task whose future was set runs again: acquire() returns and the request
\* is sent; on a closed session it raises at once and the permit is released.
ResumeAttempt(t) ==
    LET res == AcquireResumed(sem, t)
        rel == ReleaseOnError(res.sem)
    IN
    /\ Running
    /\ pc[t] = "woken"
    /\ IF SessionClosed
       THEN /\ sem' = rel.sem
            /\ pc' = Grant([pc EXCEPT ![t] = "failed"], res.woken \cup rel.woken)
            /\ log' = [log EXCEPT ![t] = Append(@, "other")]
       ELSE /\ sem' = res.sem
            /\ pc' = Grant([pc EXCEPT ![t] = "holding"], res.woken)
            /\ log' = log
    /\ upc' = UnitOfListing(t, pc')
    /\ UNCHANGED <<years, parallel, year_range, total, n, tries, served, doc,
                   author_ids, rows, arrived, mpc, must_cancel, output, faults>>

\* The request of t is answered with page: the page is parsed, update() is
\* called, the permit is released and the wrapper returns the document.  The
\* loader then reads it; for the listing the scrape goes on inline.
FetchOk(t, page, F) ==
    LET rel == Release(sem)
        d == WrapperReturn(page)
        u == t[1]
        raised == t[2] # "listing" /\ ~d.maincard
        p1 == Grant([pc EXCEPT ![t] = IF raised THEN "failed" ELSE "done"], rel.woken)
        cards == load_paper_ids(d)
    IN
    /\ Running
    /\ pc[t] = "holding"
    /\ page.maincard \/ faults < F
    /\ faults' = IF page.maincard THEN faults ELSE faults + 1
    /\ n' = PbarUpdate(n)
    /\ sem' = rel.sem
    /\ served' = [served EXCEPT ![t] = page]
    /\ doc' = [doc EXCEPT ![t] = d]
    /\ log' = [log EXCEPT ![t] = Append(@, "ok")]
    /\ IF t[2] = "listing"
       THEN IF cards = <<>>
            THEN /\ pc' = p1
                 /\ upc' = [upc EXCEPT ![u] = "done"]
            ELSE /\ pc' = [x \in TaskIds |->
                            IF x[1] = u /\ x[2] = "paper" /\ x[3] <= Len(cards)
                            THEN "created" ELSE p1[x]]
                 /\ upc' = [upc EXCEPT ![u] = "papers"]
       ELSE /\ pc' = p1
            /\ upc' = upc
    /\ arrived' = IF t[2] = "listing" \/ raised THEN arrived
                  ELSE [arrived EXCEPT ![u] = Append(@, t)]
    /\ UNCHANGED <<years, parallel, year_range, total, tries, author_ids, rows, mpc,
                   must_cancel, output>>

\* The request of t fails with e: "conn" is ClientConnectionError, "other" any
\* other exception.  The permit is released; the wrapper retries or re-raises.
FetchError(t, e, F) ==
    LET rel == ReleaseOnError(sem)
        p1 == Grant(pc, rel.woken)
    IN
    /\ Running
    /\ pc[t] = "holding"
    /\ faults < F
    /\ faults' = faults + 1
    /\ n' = PbarOnError(n)
    /\ IF Retryable(e) /\ ~LastTry(tries[t])
       THEN BeginAttempt(t, rel.sem, p1, [log EXCEPT ![t] = Append(@, e)])
       ELSE /\ sem' = rel.sem
            /\ pc' = [p1 EXCEPT ![t] = "failed"]
            /\ log' = [log EXCEPT ![t] = Append(@, e)]
            /\ UNCHANGED <<total, tries>>
    /\ upc' = UnitOfListing(t, pc')
    /\ UNCHANGED <<years, parallel, year_range, served, doc, author_ids, rows, arrived,
                   mpc, must_cancel, output>>

\* ----------------------------------------------------------------- scrape
\* gather(*paper_tasks) returned: the author ids are collected and one
\* load_author task is made per id (none: the join runs at once).
UnitAfterPapers(u) ==
    /\ Running
    /\ upc[u] = "papers"
    /\ GatherReturned({pc[t] : t \in PaperTasks(u)})
    /\ \E ids \in AuthorIdLists(paper_data(u)) :
        /\ author_ids' = [author_ids EXCEPT ![u] = ids]
        /\ IF ids = <<>>
           THEN /\ upc' = [upc EXCEPT ![u] = "done"]
                /\ rows' = [rows EXCEPT ![u] = Join(u, paper_data(u), DictOf(<<>>))]
                /\ pc' = pc
           ELSE /\ upc' = [upc EXCEPT ![u] = "authors"]
                /\ rows' = rows
                /\ pc' = [x \in TaskIds |->
                            IF x[1] = u /\ x[2] = "author" /\ x[3] <= Len(ids)
                            THEN "created" ELSE pc[x]]
    /\ UNCHANGED <<years, parallel, year_range, sem, total, n, tries, log, served, doc,
                   arrived, mpc, must_cancel, output, faults>>

\* gather(*author_tasks) returned: dict, join, frame.
UnitAfterAuthors(u) ==
    LET aff == DictOf(author_data(u)) IN
    /\ Running
    /\ upc[u] = "authors"
    /\ GatherReturned({pc[t] : t \in AuthorTasks(u)})
    /\ IF JoinFails(paper_data(u), aff)
       THEN /\ upc' = [upc EXCEPT ![u] = "failed"]
            /\ rows' = rows
       ELSE /\ upc' = [upc EXCEPT ![u] = "done"]
            /\ rows' = [rows EXCEPT ![u] = Join(u, paper_data(u), aff)]
    /\ UNCHANGED <<years, parallel, year_range, sem, total, n, pc, tries, log, served, doc,
                   author_ids, arrived, mpc, must_cancel, output, faults>>

\* gather() raises the exception of a task that failed; its siblings run on.
\* Once asyncio.run has cancelled, a gather that had not raised yet still
\* raises the exception of the task that failed: the siblings, cancelled with
\* it, end before scrape() runs again.
UnitFail(u) ==
    /\ \/ Running
       \/ mpc = "failed" /\ u \notin must_cancel /\ Pending(u) = {}
    /\ GatherRaised({pc[t] : t \in Gathered(u)})
    /\ upc' = [upc EXCEPT ![u] = "failed"]
    /\ UNCHANGED <<years, parallel, year_range, sem, total, n, pc, tries, log, served, doc,
                   author_ids, rows, arrived, mpc, must_cancel, output, faults>>

\* ------------------------------------------------------------------- main
\* gather(*paper_tasks) of main returned: concat, sort, whitespace, to_csv.
MainDone ==
    /\ mpc = "gather"
    /\ MainGatherReturned({upc[u] : u \in Units})
    /\ \E us \in {UnitSeq(year_range)} :
       \E df \in {Concat([i \in 1..Len(us) |-> rows[us[i]]])} :
           output' = ReplaceAuthor(SortRows(df))
    /\ mpc' = "written"
    /\ UNCHANGED <<years, parallel, year_range, sem, total, n, pc, tries, log, served, doc,
                   upc, author_ids, rows, arrived, must_cancel, faults>>

\* gather(*paper_tasks) of main raised: main leaves the session and the
\* progress bar and ends with the error.  The tasks run on.
MainFail ==
    /\ mpc = "gather"
    /\ GatherRaised({upc[u] : u \in Units})
    /\ mpc' = "raised"
    /\ UNCHANGED <<years, parallel, year_range, sem, total, n, pc, tries, log, served, doc,
                   upc, author_ids, rows, arrived, must_cancel, output, faults>>

\* asyncio.run stops the loop and calls Task.cancel() on every task that has
\* not ended.  The pending futures of the semaphore are cancelled.  A
\* scrape() that never ran, or that waits for a future that cannot be
\* cancelled any more, gets _must_cancel: a gather with no task left to cancel
\* or that has already raised, the future of acquire() once it is set, the
\* request once it is answered.  Whether the gather of a unit with a failed
\* task and tasks still going on has already raised, and whether the request
\* of a listing is already answered, is a matter of timing.
CancelAll ==
    /\ mpc = "raised"
    /\ mpc' = "failed"
    /\ sem' = CancelWaiters(sem)
    /\ \E raised \in SUBSET {u \in Units : /\ GatherRaised({pc[t] : t \in Gathered(u)})
                                          /\ Pending(u) # {}} :
       \E answered \in SUBSET {u \in Units : /\ upc[u] = "listing"
                                            /\ pc[ListingTask(u)] = "holding"} :
          must_cancel' = raised \cup answered \cup {u \in Units :
                \/ upc[u] = "created"
                \/ upc[u] \in {"papers", "authors"} /\ Pending(u) = {}
                \/ upc[u] = "listing" /\ pc[ListingTask(u)] = "woken"}
    /\ UNCHANGED <<years, parallel, year_range, total, n, pc, tries, log, served, doc,
                   upc, author_ids, rows, arrived, output, faults>>

\* CancelledError in a fetch task: a task in acquire() leaves the queue, a
\* task inside "async with OPEN_REQUESTS" releases, a task that never ran
\* just ends.  The listing is fetched by the scrape() task itself, whose
\* _must_cancel is cleared as the error is thrown.
CancelTask(t) ==
    LET res == CASE pc[t] = "holding" -> Release(sem)
                 [] pc[t] \in {"waiting", "woken"} -> AcquireCancelled(sem, t)
                 [] OTHER -> [sem |-> sem, woken |-> {}]
    IN
    /\ mpc = "failed"
    /\ pc[t] \in {"created", "waiting", "woken", "holding"}
    /\ pc' = Grant([pc EXCEPT ![t] = "cancelled"], res.woken)
    /\ sem' = res.sem
    /\ upc' = IF t[2] = "listing" THEN [upc EXCEPT ![t[1]] = "cancelled"] ELSE upc
    /\ must_cancel' = IF t[2] = "listing" THEN must_cancel \ {t[1]} ELSE must_cancel
    /\ UNCHANGED <<years, parallel, year_range, total, n, tries, log, served, doc,
                   author_ids, rows, arrived, mpc, output, faults>>

\* CancelledError in a scrape() that waits in gather or never started: at
\* its next step when _must_cancel is set, else when the tasks of its gather
\* have ended cancelled, none having failed.
CancelUnit(u) ==
    /\ mpc = "failed"
    /\ upc[u] \in {"created", "papers", "authors"}
    /\ \/ u \in must_cancel
       \/ Pending(u) = {} /\ ~GatherRaised({pc[t] : t \in Gathered(u)})
    /\ upc' = [upc EXCEPT ![u] = "cancelled"]
    /\ must_cancel' = must_cancel \ {u}
    /\ UNCHANGED <<years, parallel, year_range, sem, total, n, pc, tries, log, served, doc,
                   author_ids, rows, arrived, mpc, output, faults>>

\* One step of the event loop, with at most F injected failures, P pages in
\* the run and U pages in a unit.
Step(F, P, U) ==
    \/ MainStart
    \/ \E u \in AllUnits : UnitStart(u)
    \/ \E t \in TaskIds : StartTask(t)
    \/ \E t \in TaskIds : ResumeAttempt(t)
    \/ \E t \in TaskIds : pc[t] = "holding" /\ \E page \in Pages(t, P, U) : FetchOk(t, page, F)
    \/ \E t \in TaskIds : \E e \in {"conn", "other"} : FetchError(t, e, F)
    \/ \E u \in AllUnits : UnitAfterPapers(u)
    \/ \E u \in AllUnits : UnitAfterAuthors(u)
    \/ \E u \in AllUnits : UnitFail(u)
    \/ MainDone
    \/ MainFail
    \/ CancelAll
    \/ \E t \in TaskIds : CancelTask(t)
    \/ \E u \in AllUnits : CancelUnit(u)

Next == Step(MaxFaults, MaxPages, MaxPages)

Spec == Init /\ [][Next]_vars

\* The same program on a larger site, with --parallel at its largest.
InitSite == Init /\ parallel = MaxParallel

NextSite == Step(MaxSiteFaults, MaxSitePages, MaxSitePages)

SpecSite == InitSite /\ [][NextSite]_vars

\* A site whose pages agree on the names: every author id is credited under
\* one name, the name its author page shows.
AgreedName(id) == IF id = "a1" THEN Ann ELSE BoLi

Agrees(t, pg) ==
    /\ pg.maincard
    /\ \A i \in DOMAIN pg.buttons : pg.buttons[i][1] = AgreedName(pg.buttons[i][2])
    /\ t[2] = "author" => pg.h3 = AgreedName(author_ids[t[1]][t[3]])

\* The same program asked for 2016-2017 on such a site and on a network that
\* does not fail: three units, and no fetch, no join and no unit can raise.
InitRun == Init /\ parallel = MaxParallel /\ years = Y16 \o <<Dash>> \o Y17

NextRun ==
    \/ MainStart
    \/ \E u \in AllUnits : UnitStart(u)
    \/ \E t \in TaskIds : StartTask(t)
    \/ \E t \in TaskIds : ResumeAttempt(t)
    \/ \E t \in TaskIds : pc[t] = "holding" /\
          \E page \in Pages(t, MaxRunPages, MaxUnitPages) :
             Agrees(t, page) /\ FetchOk(t, page, 0)
    \/ \E u \in AllUnits : UnitAfterPapers(u)
    \/ \E u \in AllUnits : UnitAfterAuthors(u)
    \/ MainDone

SpecRun == InitRun /\ [][NextRun]_vars

\* The program asked for 2016, 2017 or 2016-2017.  The event loop runs every
\* callback that is ready, and every request is answered: some step is taken
\* as long as one is possible.
InitFair == Init /\ years \in {Y16, Y17, Y16 \o <<Dash>> \o Y17}

NextFair == Step(MaxFairFaults, MaxFairPages, MaxFairPages)

Fairness == WF_vars(NextFair)

FairSpec == InitFair /\ [][NextFair]_vars /\ Fairness

\* The program given every kind of years argument, on a small site and a
\* network that does not fail.
InitArgs == Start(YearArgs \cup OddYearArgs) /\ parallel = MaxParallel

NextArgs ==
    \/ MainStart
    \/ \E u \in AllUnits : UnitStart(u)
    \/ \E t \in TaskIds : StartTask(t)
    \/ \E t \in TaskIds : ResumeAttempt(t)
    \/ \E t \in TaskIds : pc[t] = "holding" /\
          \E page \in Pages(t, MaxArgPages, MaxArgUnitPages) : FetchOk(t, page, 0)
    \/ \E u \in AllUnits : UnitAfterPapers(u)
    \/ MainDone

SpecArgs == InitArgs /\ [][NextArgs]_vars


\* ================================================================= claims
\* Attempts between acquire and release: the permit was taken for them (by
\* themselves, or by the release that woke them) and is not yet given back.
Holding == {t \in TaskIds : pc[t] \in {"woken", "holding"}}
Started == {t \in TaskIds : tries[t] >= 1}
Live == {t \in TaskIds : pc[t] \in {"created", "waiting", "woken", "holding"}}
Returned == {t \in TaskIds : log[t] # <<>> /\ log[t][Len(log[t])] = "ok"}
ConnErrors(k) == [i \in 1..k |-> "conn"]
\* The first k attempts of a log all ended with a connection error.
OnlyConn(l, k) == \A i \in 1..k : l[i] = "conn"

\* C1: at most `parallel` fetch attempts are between acquire and release, in
\* every reachable state.
GateCap == Cardinality(Holding) <= parallel

\* C1 witness: the gate is full and a further attempt waits for it.
GateCapWitness ==
    /\ parallel = MaxParallel
    /\ Cardinality(Holding) = parallel
    /\ \E t \in TaskIds : pc[t] = "waiting"
    /\ \E t \in TaskIds : pc[t] = "woken"

\* C2: completed <= total in every state, and no step lowers total or
\* completed.
ProgressMonotone == [](n <= total) /\ [][total' >= total /\ n' >= n]_vars

\* C2 witness: fetches have completed while a failed attempt keeps the two
\* counters apart.
ProgressMonotoneWitness ==
    /\ n >= 2
    /\ n < total
    /\ \E t \in TaskIds : log[t] # <<>> /\ log[t][1] = "conn"

\* C3 (as claimed): a run that ends with every fetch having returned its
\* document has completed = total.
SuccessfulRunCompletesTotal ==
    (mpc = "written" /\ \A t \in Started : pc[t] = "done") => n = total

\* C4 (as claimed): total is the number of fetch tasks started so far, one
\* increment per task whatever its number of attempts.
TotalCountsTasks == total = Cardinality(Started)

\* C5 (as claimed): completed is the number of fetch tasks whose fetch
\* returned a document.
CompletedCountsReturns == n = Cardinality(Returned)

\* C6: after j-1 connection errors (j <= 3) the fetch is tried again and no
\* error is surfaced; when attempt j succeeds the caller gets the document of
\* attempt j.
RetryThenSuccess ==
    \A t \in TaskIds :
        LET j == Len(log[t]) IN
        /\ tries[t] >= 1 /\ j < N_TRIES /\ OnlyConn(log[t], j)
              => tries[t] = j + 1 /\ pc[t] \in {"waiting", "woken", "holding", "cancelled"}
        /\ j \in 1..N_TRIES /\ log[t][j] = "ok" /\ OnlyConn(log[t], j - 1)
              => /\ tries[t] = j
                 /\ doc[t] = served[t]
                 /\ served[t].maincard \/ t[2] = "listing" => pc[t] = "done"

\* C6 witness: two connection errors, then the third attempt succeeds and a
\* page with content is returned.
RetryThenSuccessWitness ==
    \E t \in TaskIds :
        /\ log[t] = <<"conn", "conn", "ok">>
        /\ pc[t] = "done"
        /\ doc[t] # NoDoc

\* C7: no fetch makes more than 3 attempts; after 3 connection errors the
\* error is surfaced, with exactly 3 attempts made.
ThreeAttemptsAtMost ==
    \A t \in TaskIds :
        /\ tries[t] <= N_TRIES
        /\ Len(log[t]) <= N_TRIES
        /\ Len(log[t]) = N_TRIES /\ OnlyConn(log[t], N_TRIES)
              => pc[t] = "failed" /\ tries[t] = N_TRIES

\* C7 witness: a fetch has failed three times.
ThreeAttemptsAtMostWitness ==
    \E t \in TaskIds : log[t] = ConnErrors(N_TRIES) /\ pc[t] = "failed"

\* C8: after an error other than a connection error the fetch has failed and
\* has started no attempt beyond the one that raised.
OtherErrorNotRetried ==
    \A t \in TaskIds :
        log[t] # <<>> /\ log[t][Len(log[t])] = "other"
            => pc[t] = "failed" /\ tries[t] = Len(log[t])

\* C8 witness: another error on the second attempt, other fetches still
\* going on.
OtherErrorNotRetriedWitness ==
    /\ \E t \in TaskIds : log[t] = <<"conn", "other">>
    /\ Live # {}

\* C9: the permits out are exactly those of the attempts in flight, so a fetch
\* that ended or waits for a retry holds none, and all are back once every
\* fetch has ended.
PermitsReturned ==
    /\ sem.value = parallel - Cardinality(Holding)
    /\ Live = {} => sem.value = parallel

\* C9 witness: every fetch has ended, by success, by connection errors and by
\* another error.
PermitsReturnedWitness ==
    /\ Live = {}
    /\ \E t \in TaskIds : pc[t] = "done"
    /\ \E t \in TaskIds : pc[t] = "failed" /\ log[t][Len(log[t])] = "other"
    /\ \E t \in TaskIds : "conn" \in {log[t][i] : i \in DOMAIN log[t]}

\* C10: a unit launches one load_author task per distinct author id on its
\* papers: none before the papers are in, then exactly that many, each id once.
LaunchedAuthors(u) == {t \in TaskIds : t[1] = u /\ t[2] = "author" /\ pc[t] # "none"}

OneFetchPerAuthor ==
    \A u \in AllUnits :
        IF upc[u] \in {"authors", "done"} \/ LaunchedAuthors(u) # {}
        THEN /\ Cardinality(LaunchedAuthors(u)) = Cardinality(IdsSeen(u))
             /\ Len(author_ids[u]) = Cardinality(IdsSeen(u))
             /\ SeqToSet(author_ids[u]) = IdsSeen(u)
        ELSE LaunchedAuthors(u) = {}

\* C10 witness: two papers credit the same author and one author fetch ran.
OneFetchPerAuthorWitness ==
    \E u \in AllUnits :
        /\ upc[u] = "done"
        /\ Len(paper_ids(u)) = 2
        /\ Len(ReferencedIds(paper_data(u))) = 2
        /\ Cardinality(LaunchedAuthors(u)) = 1


\* ------------------------------------------------------- claims C11 .. C20
\* What the server showed unit u: the buttons of its i-th paper, and the
\* affiliation on the author page of id.
ButtonsServed(u, i) == served[<<u, "paper", i>>].buttons
AuthorIndex(u, id) == CHOOSE i \in DOMAIN author_ids[u] : author_ids[u][i] = id
AffiliationServed(u, id) == served[<<u, "author", AuthorIndex(u, id)>>].h4

\* C11 (as claimed): in the rows of a finished unit, the affiliation of every
\* (paper, author reference) is the one on the author page of that author id.
AffiliationOfSameId ==
    \A u \in AllUnits :
        upc[u] = "done" =>
            [k \in DOMAIN rows[u] |-> rows[u][k].Affiliation]
            = Concat([i \in 1..Len(paper_ids(u)) |->
                        [j \in DOMAIN ButtonsServed(u, i) |->
                            AffiliationServed(u, ButtonsServed(u, i)[j][2])]])

\* Every fetch of unit u has returned its document to the loader, authors
\* included.
AllFetched(u) ==
    /\ pc[ListingTask(u)] = "done"
    /\ \A t \in PaperTasks(u) : pc[t] = "done"
    /\ author_ids[u] # <<>>
    /\ \A t \in AuthorTasks(u) : pc[t] = "done"

\* C12 (as claimed): when every paper and author fetch of a unit succeeded,
\* the join finds every author reference in the map and the unit does not fail.
JoinNeverMisses ==
    \A u \in AllUnits :
        AllFetched(u) =>
            /\ ~JoinFails(paper_data(u), DictOf(author_data(u)))
            /\ upc[u] # "failed"

\* C13: the rows of a finished unit list the papers in listing order and,
\* within a paper, the authors in the order of the page, whatever the order
\* in which the fetches returned.
RowsInSourceOrder ==
    \A u \in AllUnits :
        upc[u] = "done" =>
            [k \in DOMAIN rows[u] |-> <<rows[u][k].Title, rows[u][k].Author>>]
            = Concat([i \in 1..Len(served[ListingTask(u)].cards) |->
                        [j \in DOMAIN ButtonsServed(u, i) |->
                            <<served[ListingTask(u)].cards[i], ButtonsServed(u, i)[j][1]>>]])

\* C13 witness: a paper with two authors whose author fetches returned in the
\* opposite order of the buttons.
RowsInSourceOrderWitness ==
    \E u \in AllUnits :
        /\ upc[u] = "done"
        /\ Len(rows[u]) = 2
        /\ Len(ButtonsServed(u, 1)) = 2
        /\ LET first == <<u, "author", AuthorIndex(u, ButtonsServed(u, 1)[1][2])>>
               second == <<u, "author", AuthorIndex(u, ButtonsServed(u, 1)[2][2])>>
           IN arrived[u] = <<<<u, "paper", 1>>, second, first>>

\* C14: a unit one of whose fetches has surfaced an error never finishes and
\* returns no rows; a failed or cancelled unit has no rows.
FailedUnitHasNoRows ==
    \A u \in AllUnits :
        /\ (\E t \in TasksOf(u) : pc[t] = "failed") => upc[u] # "done" /\ rows[u] = <<>>
        /\ upc[u] \in {"failed", "cancelled"} => rows[u] = <<>>

\* C14 witness: one paper of the unit failed, another was loaded with its
\* authors, and the unit has failed without rows.
FailedUnitHasNoRowsWitness ==
    \E u \in AllUnits :
        /\ upc[u] = "failed"
        /\ \E t \in PaperTasks(u) : pc[t] = "failed"
        /\ \E t \in PaperTasks(u) : pc[t] = "done" /\ doc[t].buttons # <<>>
        /\ rows[u] = <<>>

RECURSIVE SumLen(_)
SumLen(ss) == IF ss = <<>> THEN 0 ELSE Len(Head(ss)) + SumLen(Tail(ss))

\* C15: a finished unit has one row per (paper, author reference), each with
\* the unit's conference and year.
OneRowPerReference ==
    \A u \in AllUnits :
        upc[u] = "done" =>
            /\ Len(rows[u]) = SumLen([i \in 1..Len(paper_ids(u)) |-> ButtonsServed(u, i)])
            /\ \A k \in DOMAIN rows[u] :
                  /\ rows[u][k].Conference = CONFERENCES[u[1]].name
                  /\ rows[u][k].Year = u[2]

\* C15 witness: two papers credit the same single author: 2 rows, 1 author
\* fetch.
OneRowPerReferenceWitness ==
    \E u \in AllUnits :
        /\ upc[u] = "done"
        /\ Len(paper_ids(u)) = 2
        /\ Len(ButtonsServed(u, 1)) = 1 /\ Len(ButtonsServed(u, 2)) = 1
        /\ Len(author_ids[u]) = 1
        /\ Len(rows[u]) = 2

RowOfUnit(r, u) == r.Conference = CONFERENCES[u[1]].name /\ r.Year = u[2]

\* C16: the written rows are ordered by year, then by conference, and the
\* rows of every unit are all there, in the order the unit produced them
\* (the author names with their whitespace runs replaced).
OutputSortedStable ==
    mpc = "written" =>
        /\ \A i, j \in DOMAIN output :
              i < j => \/ output[i].Year < output[j].Year
                       \/ /\ output[i].Year = output[j].Year
                          /\ NameRank(output[i].Conference) <= NameRank(output[j].Conference)
        /\ \A u \in Units :
              SelectSeq(output, LAMBDA r : RowOfUnit(r, u)) = ReplaceAuthor(rows[u])
        /\ Len(output) = SumLen([i \in 1..Len(UnitSeq(year_range)) |->
                                    rows[UnitSeq(year_range)[i]]])

\* C16 witness: ICML 2017 returned two rows, the two authors of one paper in
\* the order the paper credits them (not the alphabetical one), and NeurIPS
\* 2016 returned rows; main gathered ICML 2017 first and wrote it last, its
\* rows in the unit's order, a name with its whitespace run replaced.
OutputSortedStableWitness ==
    /\ mpc = "written"
    /\ Len(rows[<<1, 2017>>]) = 2
    /\ rows[<<1, 2017>>][1].Author = BoLi
    /\ rows[<<1, 2017>>][2].Author = Ann
    /\ rows[<<2, 2016>>] # <<>>
    /\ output[1].Year = 2016
    /\ output[Len(output) - 1].Author = <<66, 111, Space, 76, 105>>
    /\ output[Len(output)].Author = Ann

Waiting == {t \in TaskIds : pc[t] = "waiting"}

\* The run has come to an end: main has returned or raised, and no fetch and
\* no unit is left in progress.
RunEnded ==
    /\ mpc \in {"written", "failed", "rejected"}
    /\ must_cancel = {}
    /\ Live = {}
    /\ \A u \in AllUnits : upc[u] \in {"none", "done", "failed", "cancelled"}

\* C17 (as claimed): every fetch attempt that waits at the gate is eventually
\* granted a permit (it leaves the queue only with a permit, and it does not
\* stay in the queue for ever), and the run comes to an end.
EveryWaiterGranted ==
    /\ [][\A t \in TaskIds : pc[t] = "waiting" => pc'[t] \in {"waiting", "woken"}]_vars
    /\ <>[](Waiting = {} /\ RunEnded)

\* C17 (amended): every attempt that waits at the gate is eventually granted a
\* permit, or is cancelled because the run has failed (it leaves the queue in
\* no other way, and it does not stay in the queue for ever); and the run
\* comes to an end with no fetch and no unit left in progress.
WaiterGrantedOrRunFailed ==
    /\ [][\A t \in TaskIds : pc[t] = "waiting" =>
              \/ pc'[t] \in {"waiting", "woken"}
              \/ mpc = "failed" /\ pc'[t] = "cancelled"]_vars
    /\ <>[](Waiting = {} /\ RunEnded)

\* C17 witness: with one permit, a listing fetch failed while a paper fetch
\* of another unit was queued: the release let the paper fetch in, and the
\* retry of the listing now waits behind it.
WaiterGrantedOrRunFailedWitness ==
    /\ parallel = 1
    /\ \E t, h \in TaskIds :
          /\ t[2] = "listing" /\ pc[t] = "waiting" /\ tries[t] = 2 /\ log[t] = <<"conn">>
          /\ h[2] = "paper" /\ pc[h] = "holding" /\ tries[h] = 1

\* The arguments the program is meant to take: a number, or number-number.
WellFormedYears(s) ==
    \/ Digits(s)
    \/ \E k \in DOMAIN s : /\ s[k] = Dash
                           /\ Digits(SubSeq(s, 1, k - 1))
                           /\ Digits(SubSeq(s, k + 1, Len(s)))

\* C18 (as claimed): with a malformed years argument the run is rejected and
\* no fetch is ever scheduled: total stays 0.
MalformedRejectedFirst ==
    ~WellFormedYears(years) =>
        /\ mpc \in {"start", "rejected"}
        /\ total = 0
        /\ \A t \in TaskIds : pc[t] = "none"
        /\ \A u \in AllUnits : upc[u] = "none"

\* C19: a unit has paper tasks only once its listing has returned, and author
\* tasks only once every one of its paper fetches has returned.
PhasesOrdered ==
    \A u \in AllUnits :
        /\ (\E t \in TasksOf(u) : t[2] = "paper" /\ pc[t] # "none")
              => pc[ListingTask(u)] = "done"
        /\ (\E t \in TasksOf(u) : t[2] = "author" /\ pc[t] # "none")
              => /\ pc[ListingTask(u)] = "done"
                 /\ \A t \in PaperTasks(u) : pc[t] = "done"

\* C19 witness: one unit runs an author fetch while the listing of another
\* has not returned.
PhasesOrderedWitness ==
    \E u, v \in AllUnits :
        /\ \E t \in AuthorTasks(u) : pc[t] = "holding"
        /\ upc[v] = "listing"

\* C20: once a unit has failed the output is never written; it is written
\* only when every unit of the run has finished.
UnitFailureFailsRun ==
    /\ (\E u \in Units : upc[u] = "failed") => mpc # "written" /\ output = <<>>
    /\ mpc = "written" => \A u \in Units : upc[u] = "done"

\* C20 witness: the run has failed with one unit failed and every other unit
\* finished.
UnitFailureFailsRunWitness ==
    /\ mpc = "failed"
    /\ output = <<>>
    /\ \E u \in Units : /\ upc[u] = "failed"
                        /\ Units # {u}
                        /\ \A v \in Units \ {u} : upc[v] = "done"

====
